---------------------------- MODULE Spec2Model ----------------------------
(***************************************************************************)
(* Model of the Vakio Atmosphere integration: MqttClient and Coordinator   *)
(* (custom_components/vakio_atmosphere/vakio.py) and the update of the     *)
(* sensors (sensor.py).                                                    *)
(*                                                                         *)
(* Strings are sequences of tokens, "/" being a token of its own, so that  *)
(* concatenation is \o and str.split(topic, "/") is a computation.         *)
(* MQTT payloads are sequences of byte values; payload.decode() and int()  *)
(* are computed on them.                                                   *)
(*                                                                         *)
(* Coroutines of the event loop are tasks with a program counter; a step   *)
(* of a task runs from one await to the next.  A job handed to             *)
(* hass.async_add_executor_job runs in a worker thread (pc "*_run"), its   *)
(* effect on the paho client is one step, and the coroutine resumes in a   *)
(* later step (pc "*_ret").  The paho network loop is a thread of its own  *)
(* that runs on_connect and on_message.                                    *)
(*                                                                         *)
(* The paho client and the broker are modelled by what the calls of        *)
(* MqttClient do to them: connect opens a clean session or raises OSError, *)
(* subscribe and unsubscribe change the broker's subscriptions, the broker *)
(* sends messages on subscribed topics, loop_stop joins the network        *)
(* thread, and an exception leaving a callback ends that thread.           *)
(* MqttClient.try_connect is used on a client of its own by the config     *)
(* flow and is not part of the Coordinator's client.                       *)
(***************************************************************************)
EXTENDS Integers, Sequences, FiniteSets, TLC

(***************************************************************************)
(* Bounds of the model.                                                    *)
(***************************************************************************)
\* operations called plus messages sent by the broker
MaxEvents == 3
\* messages sent by the broker and not yet handled
MaxInflight == 1
\* bytes of a payload
MaxPayloadLen == 2

(***************************************************************************)
(* Strings and topics.                                                     *)
(***************************************************************************)
TEMP_ENDPOINT == <<"temp">>
HUD_ENDPOINT == <<"hum">>
CO2_ENDPOINT == <<"co2">>
ENDPOINTS == <<TEMP_ENDPOINT, HUD_ENDPOINT, CO2_ENDPOINT>>

EndpointSet == {ENDPOINTS[i] : i \in 1..Len(ENDPOINTS)}

DEFAULT_TOPIC == <<"vakio">>

\* values of data[CONF_TOPIC]: the default and a topic of two levels
ConfTopics == {DEFAULT_TOPIC, <<"home", "/", "vakio">>}

\* f"{self.data[CONF_TOPIC]}/{endpoint}"
TopicOf(conf_topic, endpoint) == conf_topic \o <<"/">> \o endpoint

\* the topic list handed to self._client.subscribe
SubscribeTopics(conf_topic) == {TopicOf(conf_topic, e) : e \in EndpointSet}

\* index of the last "/" token of s, 0 when there is none
LastSlash(s) ==
    LET idx == {i \in 1..Len(s) : s[i] = "/"}
    IN IF idx = {} THEN 0 ELSE CHOOSE i \in idx : \A j \in idx : j <= i

\* str.split(s, "/")[-1]
LastSegment(s) == SubSeq(s, LastSlash(s) + 1, Len(s))

(***************************************************************************)
(* Payload decoding.                                                       *)
(***************************************************************************)
\* byte values of the payloads: " ", "+", "-", "0", "1", "2", "h" and the byte
\* 0xFF, which no UTF-8 text contains
ByteAlphabet == {32, 43, 45, 48, 49, 50, 104, 255}

IsAscii(b) == b < 128

Chr(b) ==
    CASE b = 32 -> " "
      [] b = 45 -> "-"
      [] b = 43 -> "+"
      [] b = 48 -> "0"
      [] b = 49 -> "1"
      [] b = 50 -> "2"
      [] b = 104 -> "h"
      [] OTHER -> "?"

\* bytes.decode() succeeds
Decodable(payload) == \A i \in 1..Len(payload) : IsAscii(payload[i])

\* bytes.decode(): the text of a decodable payload
Decode(payload) == [i \in 1..Len(payload) |-> Chr(payload[i])]

Digits == {"0", "1", "2"}

DigitVal(c) == CASE c = "0" -> 0 [] c = "1" -> 1 [] c = "2" -> 2 [] OTHER -> 0

RECURSIVE LStrip(_)
LStrip(s) == IF s # <<>> /\ Head(s) = " " THEN LStrip(Tail(s)) ELSE s

RECURSIVE RStrip(_)
RStrip(s) ==
    IF s # <<>> /\ s[Len(s)] = " " THEN RStrip(SubSeq(s, 1, Len(s) - 1)) ELSE s

\* str.strip()
Strip(s) == RStrip(LStrip(s))

\* the text without its optional sign
Unsigned(s) == IF s # <<>> /\ Head(s) \in {"-", "+"} THEN Tail(s) ELSE s

RECURSIVE DigitsValue(_)
DigitsValue(s) ==
    IF s = <<>> THEN 0
    ELSE 10 * DigitsValue(SubSeq(s, 1, Len(s) - 1)) + DigitVal(s[Len(s)])

\* int(text) does not raise ValueError
IsIntText(text) ==
    LET u == Unsigned(Strip(text))
    IN u # <<>> /\ \A i \in 1..Len(u) : u[i] \in Digits

\* int(text)
IntOf(text) ==
    LET s == Strip(text)
        u == Unsigned(s)
    IN IF Head(s) = "-" THEN 0 - DigitsValue(u) ELSE DigitsValue(u)

(***************************************************************************)
(* Values of the condition cache: None, an int or a str.                   *)
(***************************************************************************)
None == [kind |-> "none", i |-> 0, s |-> <<>>]
IntVal(n) == [kind |-> "int", i |-> n, s |-> <<>>]
StrVal(text) == [kind |-> "str", i |-> 0, s |-> text]

\* on_message without the conversion: the text is stored as it is
ValueOf_raw(text) == StrVal(text)

\* the value on_message computes from a decoded payload
ValueOf(text) == IF IsIntText(text) THEN IntVal(IntOf(text)) ELSE StrVal(text)

\* an assignment that rebuilds the dict with the one item
DictSet_rebuild(d, key, value) ==
    [k \in (DOMAIN d) \cup {key} |-> IF k = key THEN value ELSE None]

\* dict item assignment: d[key] = value
DictSet(d, key, value) ==
    [k \in (DOMAIN d) \cup {key} |-> IF k = key THEN value ELSE d[k]]


(***************************************************************************)
(* State.                                                                  *)
(***************************************************************************)
LoginTasks == {"login1", "login2"}
Tasks == LoginTasks \cup {"refresh", "disconnect", "publish"}

\* contexts in which the paho client runs on_connect and on_message
Handlers == {"net1", "net2"}
\* the thread started by loop_start
NetThread == {"net1"}

VARIABLES
    data_topic,         \* MqttClient.data[CONF_TOPIC]
    is_logged_in,       \* Coordinator.is_logged_in
    condition,          \* Coordinator.condition
    is_connected,       \* MqttClient.is_connected
    subscribes_count,   \* MqttClient.subscribes_count
    paho_lock,          \* MqttClient._paho_lock: "free" or the task holding it
    sock,               \* the paho client has a connection to the broker
    loop_running,       \* the paho network loop thread is running
    connack,            \* the broker's connect acknowledgment is on its way
    broker_subs,        \* topics the broker holds a subscription for
    inflight,           \* messages sent by the broker, not yet handled
    client_calls,       \* calls on self._client in progress: [by, op]
    pc,                 \* position of each coroutine
    job_ok,             \* outcome of the connect executor job of a login task
    pub_args,           \* parameters and locals of publish
    net_pc,             \* position of each callback context
    net_msg,            \* the message a callback context is handling
    net_key,            \* local key of on_message
    net_value,          \* local value of on_message
    net_error,          \* an exception has left a callback
    returned,           \* the operation that returned in the last step, and its value
    published,          \* the self._client.publish call made in the last step
    connect_calls,      \* number of MqttClient.connect invocations
    login_subscribes,   \* number of MqttClient.subscribe invocations by async_login
    login_failed,       \* an async_login has returned False
    calls,              \* number of operations called so far
    n_msgs,             \* number of messages the broker has sent
    last_handled,       \* per topic, the payload on_message was last called with
    stored_since_subscribe, \* per topic, the values on_message has stored since
                        \* self._client.subscribe last ran
    native_value        \* VakioSensor._attr_native_value of each sensor

vars == <<data_topic, is_logged_in, condition, is_connected, subscribes_count,
          paho_lock, sock, loop_running, connack, broker_subs, inflight,
          client_calls, pc, job_ok, pub_args, net_pc, net_msg, net_key,
          net_value, net_error, returned, published, connect_calls,
          login_subscribes, login_failed, calls, n_msgs, last_handled,
          stored_since_subscribe, native_value>>

coordinator_vars == <<is_logged_in, condition>>
mqtt_vars == <<data_topic, is_connected, subscribes_count, paho_lock>>
client_vars == <<sock, loop_running, connack, broker_subs, inflight, client_calls>>
task_vars == <<pc, job_ok, pub_args>>
net_vars == <<net_pc, net_msg, net_key, net_value, net_error, last_handled>>
hist_vars == <<connect_calls, login_subscribes, login_failed, calls, n_msgs>>
aux_vars == <<stored_since_subscribe, native_value>>

\* the unique ids of the sensors async_setup_platform creates
Sensors == {"temp", "hud", "co2"}

BoolVal(b) == [kind |-> "bool", i |-> IF b THEN 1 ELSE 0, s |-> <<>>]

NoMsg == [topic |-> <<>>, payload |-> <<>>]
NoPayload == <<-1>>
NoPublish == [topic |-> <<>>, msg |-> "", qos |-> 0, retain |-> FALSE, sent |-> FALSE]
NoArgs == [endpoint |-> <<>>, msg |-> "", prefix |-> <<>>, topic |-> <<>>, qos |-> 0,
           retain |-> FALSE]
NoReturn == [op |-> "none", value |-> None]

Return(op, value) == [op |-> op, value |-> value]

\* a step in which no operation returns and nothing is published
Quiet == returned' = NoReturn /\ published' = NoPublish

Call(t, op) == [by |-> t, op |-> op]

\* Coordinator.__init__ and MqttClient.__init__
Constructed ==
    /\ is_logged_in = FALSE
    /\ condition = [k \in EndpointSet |-> None]
    /\ is_connected = FALSE
    /\ subscribes_count = 0
    /\ paho_lock = "free"
    /\ sock = FALSE
    /\ loop_running = FALSE
    /\ connack = FALSE
    /\ broker_subs = {}
    /\ inflight = <<>>
    /\ client_calls = {}
    /\ pc = [t \in Tasks |-> "idle"]
    /\ job_ok = [t \in LoginTasks |-> FALSE]
    /\ pub_args = NoArgs
    /\ net_pc = [h \in Handlers |-> "idle"]
    /\ net_msg = [h \in Handlers |-> NoMsg]
    /\ net_key = [h \in Handlers |-> <<>>]
    /\ net_value = [h \in Handlers |-> None]
    /\ net_error = FALSE
    /\ returned = NoReturn
    /\ published = NoPublish
    /\ connect_calls = 0
    /\ login_subscribes = 0
    /\ login_failed = FALSE
    /\ calls = 0
    /\ n_msgs = 0
    /\ last_handled = [tp \in SubscribeTopics(data_topic) |-> NoPayload]
    /\ stored_since_subscribe = [tp \in SubscribeTopics(data_topic) |-> 0]
    /\ native_value = [sensor \in Sensors |-> None]

\* a Coordinator constructed with the default topic
Init == data_topic = DEFAULT_TOPIC /\ Constructed

\* a Coordinator constructed with any of the topics
InitAnyTopic == data_topic \in ConfTopics /\ Constructed

(***************************************************************************)
(* asyncio.Lock and MqttClient.subscribe, shared by async_login and        *)
(* get_condition.                                                          *)
(***************************************************************************)
LockFree == paho_lock = "free"

\* subscribe up to its first suspension: count, then either take the lock and
\* hand self._client.subscribe to the executor or wait for the lock
subscribe_enter(t) ==
    /\ subscribes_count' = subscribes_count + 1
    /\ IF LockFree
       THEN /\ paho_lock' = t
            /\ client_calls' = client_calls \cup {Call(t, "subscribe")}
            /\ pc' = [pc EXCEPT ![t] = "sub_run"]
       ELSE /\ pc' = [pc EXCEPT ![t] = "sub_lock"]
            /\ UNCHANGED <<paho_lock, client_calls>>

\* the lock is granted to a waiting subscribe
subscribe_acquire(t) ==
    /\ pc[t] = "sub_lock"
    /\ LockFree
    /\ paho_lock' = t
    /\ client_calls' = client_calls \cup {Call(t, "subscribe")}
    /\ pc' = [pc EXCEPT ![t] = "sub_run"]
    /\ Quiet
    /\ UNCHANGED <<aux_vars, coordinator_vars, data_topic, is_connected, subscribes_count,
                   sock, loop_running, connack, broker_subs, inflight, job_ok,
                   pub_args, net_vars, hist_vars>>

\* the executor runs self._client.subscribe: without a connection paho returns
\* MQTT_ERR_NO_CONN and sends nothing
subscribe_job(t) ==
    /\ pc[t] = "sub_run"
    /\ broker_subs' = IF sock THEN broker_subs \cup SubscribeTopics(data_topic)
                      ELSE broker_subs
    /\ client_calls' = client_calls \ {Call(t, "subscribe")}
    /\ stored_since_subscribe' = [tp \in DOMAIN stored_since_subscribe |-> 0]
    /\ pc' = [pc EXCEPT ![t] = "sub_ret"]
    /\ Quiet
    /\ UNCHANGED <<native_value, coordinator_vars, mqtt_vars, sock, loop_running, connack,
                   inflight, job_ok, pub_args, net_vars, hist_vars>>

(***************************************************************************)
(* Coordinator.async_login with MqttClient.connect.                        *)
(***************************************************************************)
\* async_login without the test of is_logged_in: every call connects
async_login_begin_nocheck(t) ==
    /\ pc[t] = "idle"
    /\ calls + n_msgs < MaxEvents
    /\ calls' = calls + 1
    /\ connect_calls' = connect_calls + 1
    /\ client_calls' = client_calls \cup {Call(t, "connect")}
    /\ pc' = [pc EXCEPT ![t] = "connect_run"]
    /\ Quiet
    /\ UNCHANGED <<aux_vars, coordinator_vars, mqtt_vars, sock, loop_running, connack,
                   broker_subs, inflight, job_ok, pub_args, net_vars,
                   login_subscribes, login_failed, n_msgs>>

\* async_login up to its first suspension: return True when logged in,
\* otherwise enter connect and hand self._client.connect to the executor
async_login_begin(t) ==
    /\ pc[t] = "idle"
    /\ calls + n_msgs < MaxEvents
    /\ calls' = calls + 1
    /\ IF is_logged_in
       THEN /\ returned' = Return("async_login", BoolVal(TRUE))
            /\ UNCHANGED <<pc, client_calls, connect_calls>>
       ELSE /\ connect_calls' = connect_calls + 1
            /\ client_calls' = client_calls \cup {Call(t, "connect")}
            /\ pc' = [pc EXCEPT ![t] = "connect_run"]
            /\ returned' = NoReturn
    /\ published' = NoPublish
    /\ UNCHANGED <<aux_vars, coordinator_vars, mqtt_vars, sock, loop_running, connack,
                   broker_subs, inflight, job_ok, pub_args, net_vars,
                   login_subscribes, login_failed, n_msgs>>

\* the executor runs self._client.connect: it opens a new connection (a clean
\* session) or raises OSError
connect_job(t, ok) ==
    /\ pc[t] = "connect_run"
    /\ job_ok' = [job_ok EXCEPT ![t] = ok]
    /\ sock' = ok
    /\ connack' = ok
    /\ broker_subs' = {}
    /\ inflight' = <<>>
    /\ client_calls' = client_calls \ {Call(t, "connect")}
    /\ pc' = [pc EXCEPT ![t] = "connect_ret"]
    /\ Quiet
    /\ UNCHANGED <<aux_vars, coordinator_vars, mqtt_vars, loop_running, pub_args,
                   net_vars, hist_vars>>

\* async_login that subscribes only when connect succeeded
connect_resume_failfast(t) ==
    /\ pc[t] = "connect_ret"
    /\ loop_running' = (loop_running \/ job_ok[t])
    /\ IF job_ok[t]
       THEN /\ login_subscribes' = login_subscribes + 1
            /\ subscribe_enter(t)
       ELSE /\ pc' = [pc EXCEPT ![t] = "sub_ret"]
            /\ UNCHANGED <<login_subscribes, subscribes_count, paho_lock,
                           client_calls>>
    /\ Quiet
    /\ UNCHANGED <<aux_vars, coordinator_vars, data_topic, is_connected, sock,
                   connack, broker_subs, inflight, job_ok, pub_args, net_vars,
                   connect_calls, login_failed, calls, n_msgs>>

\* connect resumes (loop_start on success, the error logged otherwise) and
\* async_login goes on into subscribe
connect_resume(t) ==
    /\ pc[t] = "connect_ret"
    /\ loop_running' = (loop_running \/ job_ok[t])
    /\ login_subscribes' = login_subscribes + 1
    /\ subscribe_enter(t)
    /\ Quiet
    /\ UNCHANGED <<aux_vars, coordinator_vars, data_topic, is_connected, sock, connack,
                   broker_subs, inflight, job_ok, pub_args, net_vars,
                   connect_calls, login_failed, calls, n_msgs>>

\* async_login that is logged in only when connect succeeded
async_login_return_strict(t) ==
    /\ pc[t] = "sub_ret"
    /\ t \in LoginTasks
    /\ paho_lock' = "free"
    /\ is_logged_in' = (is_logged_in \/ job_ok[t])
    /\ returned' = Return("async_login", BoolVal(job_ok[t]))
    /\ login_failed' = (login_failed \/ ~job_ok[t])
    /\ job_ok' = [job_ok EXCEPT ![t] = FALSE]
    /\ pc' = [pc EXCEPT ![t] = "idle"]
    /\ published' = NoPublish
    /\ UNCHANGED <<aux_vars, condition, data_topic, is_connected, subscribes_count,
                   client_vars, pub_args, net_vars, connect_calls,
                   login_subscribes, calls, n_msgs>>

\* subscribe resumes and releases the lock; async_login sets is_logged_in and
\* returns the status of connect
async_login_return(t) ==
    /\ pc[t] = "sub_ret"
    /\ t \in LoginTasks
    /\ paho_lock' = "free"
    /\ is_logged_in' = TRUE
    /\ returned' = Return("async_login", BoolVal(job_ok[t]))
    /\ login_failed' = (login_failed \/ ~job_ok[t])
    /\ job_ok' = [job_ok EXCEPT ![t] = FALSE]
    /\ pc' = [pc EXCEPT ![t] = "idle"]
    /\ published' = NoPublish
    /\ UNCHANGED <<aux_vars, condition, data_topic, is_connected, subscribes_count,
                   client_vars, pub_args, net_vars, connect_calls,
                   login_subscribes, calls, n_msgs>>

(***************************************************************************)
(* Coordinator._async_update with MqttClient.get_condition.                *)
(***************************************************************************)
\* the timer of _async_update is registered once async_login has returned
get_condition_begin ==
    /\ pc["refresh"] = "idle"
    /\ is_logged_in
    /\ calls + n_msgs < MaxEvents
    /\ calls' = calls + 1
    /\ subscribe_enter("refresh")
    /\ Quiet
    /\ UNCHANGED <<aux_vars, coordinator_vars, data_topic, is_connected, sock,
                   loop_running, connack, broker_subs, inflight, job_ok,
                   pub_args, net_vars, connect_calls, login_subscribes,
                   login_failed, n_msgs>>

\* _async_update that empties the cache once the subscribe is done
get_condition_return_clearing ==
    /\ pc["refresh"] = "sub_ret"
    /\ paho_lock' = "free"
    /\ pc' = [pc EXCEPT !["refresh"] = "idle"]
    /\ condition' = [k \in DOMAIN condition |-> None]
    /\ returned' = Return("_async_update", None)
    /\ published' = NoPublish
    /\ UNCHANGED <<aux_vars, is_logged_in, data_topic, is_connected,
                   subscribes_count, client_vars, job_ok, pub_args, net_vars,
                   hist_vars>>

\* subscribe resumes and releases the lock; get_condition returns the cache
get_condition_return ==
    /\ pc["refresh"] = "sub_ret"
    /\ paho_lock' = "free"
    /\ pc' = [pc EXCEPT !["refresh"] = "idle"]
    /\ returned' = Return("_async_update", None)
    /\ published' = NoPublish
    /\ UNCHANGED <<aux_vars, coordinator_vars, data_topic, is_connected, subscribes_count,
                   client_vars, job_ok, pub_args, net_vars, hist_vars>>

(***************************************************************************)
(* MqttClient.publish.                                                     *)
(***************************************************************************)
\* arguments the model calls publish with; NoPrefix stands for prefix=None
NoPrefix == <<"<None>">>
PubEndpoints == {<<"mode">>, <<"cmd", "/", "speed">>}
PubPrefixes == {NoPrefix, <<>>, <<"server">>}
PubMsgs == {"on", "off"}

\* publish that tests the prefix for truth ("if prefix:") instead of "is not None"
publish_topic_truthy(conf_topic, endpoint, prefix) ==
    LET topic == conf_topic \o <<"/">> \o endpoint
    IN IF prefix # NoPrefix /\ prefix # <<>> THEN prefix \o <<"/">> \o topic ELSE topic

\* topic = self.data[CONF_TOPIC] + "/" + endpoint, prefix + "/" + topic with a prefix
publish_topic(conf_topic, endpoint, prefix) ==
    LET topic == conf_topic \o <<"/">> \o endpoint
    IN IF prefix # NoPrefix THEN prefix \o <<"/">> \o topic ELSE topic

\* the parameters and locals of publish before it takes the lock
publish_locals(conf_topic, endpoint, msg, prefix) ==
    [endpoint |-> endpoint, msg |-> msg, prefix |-> prefix,
     topic |-> publish_topic(conf_topic, endpoint, prefix), qos |-> 0,
     retain |-> TRUE]

\* self._client.publish(topic, msg, qos, retain)
publish_call(locals) ==
    [topic |-> locals.topic, msg |-> locals.msg, qos |-> locals.qos,
     retain |-> locals.retain, sent |-> TRUE]

\* publish up to its first suspension
publish_begin(endpoint, msg, prefix) ==
    /\ pc["publish"] = "idle"
    /\ calls + n_msgs < MaxEvents
    /\ calls' = calls + 1
    /\ pub_args' = publish_locals(data_topic, endpoint, msg, prefix)
    /\ IF LockFree
       THEN /\ paho_lock' = "publish"
            /\ client_calls' = client_calls \cup {Call("publish", "publish")}
            /\ pc' = [pc EXCEPT !["publish"] = "pub_run"]
       ELSE /\ pc' = [pc EXCEPT !["publish"] = "pub_lock"]
            /\ UNCHANGED <<paho_lock, client_calls>>
    /\ Quiet
    /\ UNCHANGED <<aux_vars, coordinator_vars, data_topic, is_connected, subscribes_count,
                   sock, loop_running, connack, broker_subs, inflight, job_ok,
                   net_vars, connect_calls, login_subscribes, login_failed,
                   n_msgs>>

\* the lock is granted to a waiting publish
publish_acquire ==
    /\ pc["publish"] = "pub_lock"
    /\ LockFree
    /\ paho_lock' = "publish"
    /\ client_calls' = client_calls \cup {Call("publish", "publish")}
    /\ pc' = [pc EXCEPT !["publish"] = "pub_run"]
    /\ Quiet
    /\ UNCHANGED <<aux_vars, coordinator_vars, data_topic, is_connected, subscribes_count,
                   sock, loop_running, connack, broker_subs, inflight, job_ok,
                   pub_args, net_vars, hist_vars>>

\* the executor runs self._client.publish
publish_job ==
    /\ pc["publish"] = "pub_run"
    /\ published' = publish_call(pub_args)
    /\ client_calls' = client_calls \ {Call("publish", "publish")}
    /\ pc' = [pc EXCEPT !["publish"] = "pub_ret"]
    /\ returned' = NoReturn
    /\ UNCHANGED <<aux_vars, coordinator_vars, mqtt_vars, sock, loop_running, connack,
                   broker_subs, inflight, job_ok, pub_args, net_vars, hist_vars>>

\* publish resumes, releases the lock and returns True
publish_return ==
    /\ pc["publish"] = "pub_ret"
    /\ paho_lock' = "free"
    /\ pc' = [pc EXCEPT !["publish"] = "idle"]
    /\ returned' = Return("publish", BoolVal(TRUE))
    /\ published' = NoPublish
    /\ pub_args' = NoArgs
    /\ UNCHANGED <<aux_vars, coordinator_vars, data_topic, is_connected, subscribes_count,
                   client_vars, job_ok, net_vars, hist_vars>>

(***************************************************************************)
(* MqttClient.disconnect.                                                  *)
(***************************************************************************)
\* disconnect that leaves is_connected as it is
disconnect_locked_unmarked ==
    /\ paho_lock' = "disconnect"
    /\ UNCHANGED is_connected
    /\ client_calls' = client_calls \cup {Call("disconnect", "loop_stop")}
    /\ pc' = [pc EXCEPT !["disconnect"] = "stop_run"]

\* with the lock: is_connected = False, then loop_stop handed to the executor
disconnect_locked ==
    /\ paho_lock' = "disconnect"
    /\ is_connected' = FALSE
    /\ client_calls' = client_calls \cup {Call("disconnect", "loop_stop")}
    /\ pc' = [pc EXCEPT !["disconnect"] = "stop_run"]

\* disconnect up to its first suspension
disconnect_begin ==
    /\ pc["disconnect"] = "idle"
    /\ calls + n_msgs < MaxEvents
    /\ calls' = calls + 1
    /\ IF LockFree
       THEN disconnect_locked
       ELSE /\ pc' = [pc EXCEPT !["disconnect"] = "disc_lock"]
            /\ UNCHANGED <<paho_lock, is_connected, client_calls>>
    /\ Quiet
    /\ UNCHANGED <<aux_vars, coordinator_vars, data_topic, subscribes_count, sock,
                   loop_running, connack, broker_subs, inflight, job_ok,
                   pub_args, net_vars, connect_calls, login_subscribes,
                   login_failed, n_msgs>>

\* the lock is granted to a waiting disconnect
disconnect_acquire ==
    /\ pc["disconnect"] = "disc_lock"
    /\ LockFree
    /\ disconnect_locked
    /\ Quiet
    /\ UNCHANGED <<aux_vars, coordinator_vars, data_topic, subscribes_count, sock,
                   loop_running, connack, broker_subs, inflight, job_ok,
                   pub_args, net_vars, hist_vars>>

\* the executor runs self._client.loop_stop, which joins the network thread:
\* it returns once no callback is running
stop_job ==
    /\ pc["disconnect"] = "stop_run"
    /\ \A h \in Handlers : net_pc[h] = "idle"
    /\ loop_running' = FALSE
    /\ client_calls' = client_calls \ {Call("disconnect", "loop_stop")}
    /\ pc' = [pc EXCEPT !["disconnect"] = "stop_ret"]
    /\ Quiet
    /\ UNCHANGED <<aux_vars, coordinator_vars, mqtt_vars, sock, connack, broker_subs,
                   inflight, job_ok, pub_args, net_vars, hist_vars>>

\* disconnect that also logs the Coordinator out
disconnect_finish_logout ==
    /\ pc["disconnect"] = "stop_ret"
    /\ sock' = FALSE
    /\ connack' = FALSE
    /\ broker_subs' = {}
    /\ inflight' = <<>>
    /\ paho_lock' = "free"
    /\ is_logged_in' = FALSE
    /\ pc' = [pc EXCEPT !["disconnect"] = "idle"]
    /\ returned' = Return("disconnect", None)
    /\ published' = NoPublish
    /\ UNCHANGED <<aux_vars, condition, data_topic, is_connected, subscribes_count,
                   loop_running, client_calls, job_ok, pub_args, net_vars,
                   hist_vars>>

\* disconnect that returns without releasing the lock
disconnect_finish_keep_lock ==
    /\ pc["disconnect"] = "stop_ret"
    /\ sock' = FALSE
    /\ connack' = FALSE
    /\ broker_subs' = {}
    /\ inflight' = <<>>
    /\ pc' = [pc EXCEPT !["disconnect"] = "idle"]
    /\ returned' = Return("disconnect", None)
    /\ published' = NoPublish
    /\ UNCHANGED <<aux_vars, coordinator_vars, mqtt_vars, loop_running, client_calls,
                   job_ok, pub_args, net_vars, hist_vars>>

\* disconnect resumes: self._client.disconnect() closes the connection, then
\* the lock is released
disconnect_finish ==
    /\ pc["disconnect"] = "stop_ret"
    /\ sock' = FALSE
    /\ connack' = FALSE
    /\ broker_subs' = {}
    /\ inflight' = <<>>
    /\ paho_lock' = "free"
    /\ pc' = [pc EXCEPT !["disconnect"] = "idle"]
    /\ returned' = Return("disconnect", None)
    /\ published' = NoPublish
    /\ UNCHANGED <<aux_vars, coordinator_vars, data_topic, is_connected, subscribes_count,
                   loop_running, client_calls, job_ok, pub_args, net_vars,
                   hist_vars>>

(***************************************************************************)
(* The broker and the callbacks of the network loop.                       *)
(***************************************************************************)
RECURSIVE SeqsUpTo(_, _)
SeqsUpTo(S, n) ==
    IF n = 0 THEN {<<>>}
    ELSE LET shorter == SeqsUpTo(S, n - 1)
         IN shorter \cup {Append(p, b) : p \in shorter, b \in S}

\* every payload of at most MaxPayloadLen bytes
AllPayloads == SeqsUpTo(ByteAlphabet, MaxPayloadLen)

\* "21", "hh" and the single byte 0xFF
Payloads == {<<50, 49>>, <<104, 104>>, <<255>>}

\* the broker sends a message on a topic it holds a subscription for
broker_deliver(topic, payload) ==
    /\ sock
    /\ topic \in broker_subs
    /\ calls + n_msgs < MaxEvents
    /\ Len(inflight) < MaxInflight
    /\ inflight' = Append(inflight, [topic |-> topic, payload |-> payload])
    /\ n_msgs' = n_msgs + 1
    /\ Quiet
    /\ UNCHANGED <<aux_vars, coordinator_vars, mqtt_vars, sock, loop_running, connack,
                   broker_subs, client_calls, task_vars, net_vars,
                   connect_calls, login_subscribes, login_failed, calls>>

\* MqttClient.on_connect
on_connect(h) ==
    /\ loop_running
    /\ sock
    /\ connack
    /\ net_pc[h] = "idle"
    /\ is_connected' = TRUE
    /\ connack' = FALSE
    /\ Quiet
    /\ UNCHANGED <<aux_vars, coordinator_vars, data_topic, subscribes_count, paho_lock,
                   sock, loop_running, broker_subs, inflight, client_calls,
                   task_vars, net_vars, hist_vars>>

\* on_message is called with the next message: the key is taken from the
\* topic and self._client.unsubscribe is called
on_message_begin(h) ==
    /\ loop_running
    /\ sock
    /\ net_pc[h] = "idle"
    /\ inflight # <<>>
    /\ LET message == Head(inflight)
           key == LastSegment(message.topic)
       IN /\ net_msg' = [net_msg EXCEPT ![h] = message]
          /\ net_key' = [net_key EXCEPT ![h] = key]
          /\ last_handled' = [last_handled EXCEPT ![message.topic] = message.payload]
    /\ inflight' = Tail(inflight)
    /\ client_calls' = client_calls \cup {Call(h, "unsubscribe")}
    /\ net_pc' = [net_pc EXCEPT ![h] = "unsubscribe"]
    /\ Quiet
    /\ UNCHANGED <<aux_vars, coordinator_vars, mqtt_vars, sock, loop_running, connack,
                   broker_subs, task_vars, net_value, net_error, hist_vars>>

\* on_message returns or raises: its locals are gone
on_message_end(h) ==
    /\ net_pc' = [net_pc EXCEPT ![h] = "idle"]
    /\ net_msg' = [net_msg EXCEPT ![h] = NoMsg]
    /\ net_key' = [net_key EXCEPT ![h] = <<>>]
    /\ net_value' = [net_value EXCEPT ![h] = None]

\* unsubscribe returns; the payload is decoded and converted.  A payload that
\* is no UTF-8 text makes decode() raise: the exception leaves on_message and
\* ends the network thread
on_message_decode(h) ==
    /\ net_pc[h] = "unsubscribe"
    /\ client_calls' = client_calls \ {Call(h, "unsubscribe")}
    /\ broker_subs' = IF sock THEN broker_subs \ {net_msg[h].topic} ELSE broker_subs
    /\ IF Decodable(net_msg[h].payload)
       THEN /\ net_value' = [net_value EXCEPT ![h] = ValueOf(Decode(net_msg[h].payload))]
            /\ net_pc' = [net_pc EXCEPT ![h] = "store"]
            /\ UNCHANGED <<net_error, loop_running, net_msg, net_key>>
       ELSE /\ net_error' = TRUE
            /\ loop_running' = FALSE
            /\ on_message_end(h)
    /\ Quiet
    /\ UNCHANGED <<aux_vars, coordinator_vars, mqtt_vars, sock, connack, inflight,
                   task_vars, last_handled, hist_vars>>

\* self._coordinator.condition[key] = value
on_message_store(h) ==
    /\ net_pc[h] = "store"
    /\ condition' = DictSet(condition, net_key[h], net_value[h])
    /\ stored_since_subscribe' =
          [stored_since_subscribe EXCEPT ![net_msg[h].topic] = @ + 1]
    /\ on_message_end(h)
    /\ Quiet
    /\ UNCHANGED <<native_value, is_logged_in, mqtt_vars, client_vars, task_vars, net_error,
                   last_handled, hist_vars>>

(***************************************************************************)
(* The getters of the Coordinator.                                         *)
(***************************************************************************)
\* a getter that takes the value out of the cache
getter_consuming(name, key) ==
    /\ is_logged_in
    /\ returned' = Return(name, condition[key])
    /\ condition' = DictSet(condition, key, None)
    /\ published' = NoPublish
    /\ UNCHANGED <<aux_vars, is_logged_in, mqtt_vars, client_vars, task_vars, net_vars,
                   hist_vars>>

\* a getter call; the sensors' timers are registered once async_login has
\* returned
getter(name, key) ==
    /\ is_logged_in
    /\ returned' = Return(name, condition[key])
    /\ published' = NoPublish
    /\ UNCHANGED <<aux_vars, coordinator_vars, mqtt_vars, client_vars, task_vars,
                   net_vars, hist_vars>>

get_temp == getter("get_temp", TEMP_ENDPOINT)
get_hud == getter("get_hud", HUD_ENDPOINT)
get_co2 == getter("get_co2", CO2_ENDPOINT)

(***************************************************************************)
(* Specifications.                                                         *)
(***************************************************************************)
\* the steps of async_login after its call, of _async_update and of disconnect
OperationStep ==
    \/ \E t \in LoginTasks, ok \in BOOLEAN : connect_job(t, ok)
    \/ \E t \in LoginTasks : connect_resume(t)
    \/ \E t \in LoginTasks \cup {"refresh"} : subscribe_acquire(t)
    \/ \E t \in LoginTasks \cup {"refresh"} : subscribe_job(t)
    \/ \E t \in LoginTasks : async_login_return(t)
    \/ get_condition_begin
    \/ get_condition_return
    \/ disconnect_begin
    \/ disconnect_acquire
    \/ stop_job
    \/ disconnect_finish

\* the getters
GetterStep ==
    \/ get_temp
    \/ get_hud
    \/ get_co2

\* the steps of publish after its call
PublishStep ==
    \/ publish_acquire
    \/ publish_job
    \/ publish_return

\* the callbacks run in the contexts H
CallbackStep(H) ==
    \/ \E h \in H : on_connect(h)
    \/ \E h \in H : on_message_begin(h)
    \/ \E h \in H : on_message_decode(h)
    \/ \E h \in H : on_message_store(h)

\* the broker and the callbacks run in the contexts H
NetStep(H) ==
    \/ \E e \in EndpointSet, p \in Payloads : broker_deliver(TopicOf(data_topic, e), p)
    \/ CallbackStep(H)

\* any interleaving of the operations, async_login calls overlapping
Next ==
    \/ \E t \in LoginTasks : async_login_begin(t)
    \/ OperationStep
    \/ GetterStep
    \/ publish_begin(<<"mode">>, "on", NoPrefix)
    \/ PublishStep
    \/ NetStep(NetThread)

Spec == Init /\ [][Next]_vars

\* async_login called when no other async_login is in progress
async_login_begin_seq(t) ==
    /\ \A u \in LoginTasks : pc[u] = "idle"
    /\ async_login_begin(t)

\* as Next, the async_login calls made one after another
NextSeq ==
    \/ \E t \in LoginTasks : async_login_begin_seq(t)
    \/ OperationStep
    \/ GetterStep
    \/ publish_begin(<<"mode">>, "on", NoPrefix)
    \/ PublishStep
    \/ NetStep(NetThread)

SpecSeq == Init /\ [][NextSeq]_vars

GetterNames == {"get_temp", "get_hud", "get_co2"}

(***************************************************************************)
(* C1.  async_login calls made one after another: connect is invoked at    *)
(* most once and subscribe is invoked by async_login at most once; a call  *)
(* made when is_logged_in is set returns True and invokes neither connect  *)
(* nor subscribe (no call on the client, no count of a subscribe).         *)
(***************************************************************************)
LoginIdempotent ==
    [][ /\ connect_calls' <= 1
        /\ login_subscribes' <= 1
        /\ \A t \in LoginTasks :
              (is_logged_in /\ async_login_begin(t)) =>
                  /\ returned' = Return("async_login", BoolVal(TRUE))
                  /\ UNCHANGED <<connect_calls, login_subscribes,
                                 subscribes_count, client_calls, paho_lock, pc>>
      ]_vars

\* a call of async_login has returned True at once, after the one that connected
\* (and failed) had returned
LoginIdempotentWitness ==
    /\ login_failed
    /\ returned = Return("async_login", BoolVal(TRUE))
    /\ connect_calls = 1
    /\ login_subscribes = 1

(***************************************************************************)
(* C3.  The getters are pure reads: a getter call returns the cached value *)
(* of its key and leaves the cache, is_logged_in, is_connected, the lock,  *)
(* subscribes_count and the calls on the client as they are; and a getter  *)
(* can be called and returns whoever holds the lock.                       *)
(***************************************************************************)
GetterKey(name) ==
    CASE name = "get_temp" -> TEMP_ENDPOINT
      [] name = "get_hud" -> HUD_ENDPOINT
      [] name = "get_co2" -> CO2_ENDPOINT

GettersPureReads ==
    /\ [](is_logged_in => ENABLED get_temp /\ ENABLED get_hud /\ ENABLED get_co2)
    /\ [][ returned'.op \in GetterNames =>
             /\ returned'.value = condition[GetterKey(returned'.op)]
             /\ UNCHANGED <<condition, is_logged_in, is_connected, paho_lock,
                            subscribes_count, client_calls, pc>>
         ]_vars

\* a getter has returned a received value while a coroutine holds the lock
GettersPureReadsWitness ==
    /\ returned.op = "get_temp"
    /\ returned.value # None
    /\ paho_lock # "free"

(***************************************************************************)
(* C5.  An async_login whose connect failed returns False and leaves       *)
(* is_logged_in set; and once is_logged_in is set, no step of any          *)
(* operation or callback resets it.                                        *)
(***************************************************************************)
LoggedInTerminal ==
    [][ /\ is_logged_in => is_logged_in'
        /\ \A t \in LoginTasks :
              (~job_ok[t] /\ async_login_return(t)) =>
                  /\ returned' = Return("async_login", BoolVal(FALSE))
                  /\ is_logged_in'
      ]_vars

\* the first async_login has returned False, is_logged_in is set, and a
\* disconnect has run to its end since
LoggedInTerminalWitness ==
    /\ login_failed
    /\ is_logged_in
    /\ connect_calls = 1
    /\ returned = Return("disconnect", None)

(***************************************************************************)
(* C7.  After an async_login that returned False (its connect failed), the *)
(* three metrics stay unset: with the async_login calls made one after     *)
(* another, every cached value is None in every later state and every      *)
(* getter returns None.                                                    *)
(***************************************************************************)
FailedLoginNoMetrics ==
    login_failed =>
        /\ \A k \in DOMAIN condition : condition[k] = None
        /\ returned.op \in GetterNames => returned.value = None

\* after the failed async_login: a refresh, a further async_login, and a getter
\* that returned None
FailedLoginNoMetricsWitness ==
    /\ login_failed
    /\ calls = 3
    /\ subscribes_count = 2
    /\ returned = Return("get_co2", None)

(***************************************************************************)
(* C4.  Every call that connect, disconnect, subscribe and publish make on *)
(* the client is made by the holder of the lock: while such a call is in   *)
(* progress, the lock is held by the coroutine that made it.               *)
(***************************************************************************)
LockedOps == {"connect", "loop_stop", "subscribe", "publish"}

ClientCallsUnderLock ==
    \A c \in client_calls : c.op \in LockedOps => paho_lock = c.by

DisconnectBeforeConnect ==
    [][ (connect_calls = 0 /\ disconnect_finish) =>
            /\ returned' = Return("disconnect", None)
            /\ ~is_connected'
            /\ paho_lock' = "free"
            /\ ~net_error'
            /\ ~sock' /\ ~loop_running'
      ]_vars

\* disconnect has returned and connect has not been invoked
DisconnectBeforeConnectWitness ==
    /\ returned = Return("disconnect", None)
    /\ connect_calls = 0
    /\ pc["disconnect"] = "idle"

(***************************************************************************)
(* Specification of one incoming message: async_login, then one message    *)
(* with any payload of at most MaxPayloadLen bytes on any of the topics.   *)
(***************************************************************************)
\* the steps of async_login when nothing else takes the lock
LoginStep ==
    \/ \E t \in LoginTasks : async_login_begin_seq(t)
    \/ \E t \in LoginTasks, ok \in BOOLEAN : connect_job(t, ok)
    \/ \E t \in LoginTasks : connect_resume(t)
    \/ \E t \in LoginTasks : subscribe_job(t)
    \/ \E t \in LoginTasks : async_login_return(t)

\* the first message the broker sends
broker_deliver_first(topic, payload) ==
    /\ n_msgs = 0
    /\ broker_deliver(topic, payload)

NextMsg ==
    \/ LoginStep
    \/ \E e \in EndpointSet, p \in AllPayloads :
          broker_deliver_first(TopicOf(data_topic, e), p)
    \/ CallbackStep(NetThread)

SpecMsg == InitAnyTopic /\ [][NextMsg]_vars

\* the payload is an optional sign and decimal digits, spaces around them
RECURSIVE Pow10(_)
Pow10(n) == IF n = 0 THEN 1 ELSE 10 * Pow10(n - 1)

IsDigitByte(b) == 48 <= b /\ b <= 57

\* the positions of the payload that hold no space
Core(payload) == {i \in 1..Len(payload) : payload[i] # 32}

First(payload) == CHOOSE i \in Core(payload) : \A j \in Core(payload) : i <= j
Last(payload) == CHOOSE i \in Core(payload) : \A j \in Core(payload) : j <= i

\* the positions of the digits of a payload that is a decimal integer
DigitPositions(payload) ==
    IF payload[First(payload)] \in {43, 45}
    THEN (First(payload) + 1)..Last(payload)
    ELSE First(payload)..Last(payload)

IsDecimalPayload(payload) ==
    /\ Core(payload) # {}
    /\ DigitPositions(payload) # {}
    /\ \A i \in DigitPositions(payload) : IsDigitByte(payload[i])

RECURSIVE SumOver(_, _)
SumOver(payload, positions) ==
    IF positions = {} THEN 0
    ELSE LET i == CHOOSE j \in positions : TRUE
         IN (payload[i] - 48) * Pow10(Last(payload) - i)
            + SumOver(payload, positions \ {i})

DecimalValue(payload) ==
    LET magnitude == SumOver(payload, DigitPositions(payload))
    IN IF payload[First(payload)] = 45 THEN 0 - magnitude ELSE magnitude

\* the value is the text made of the bytes of the payload
IsTextOf(value, payload) ==
    /\ value.kind = "str"
    /\ Len(value.s) = Len(payload)
    /\ \A i \in 1..Len(payload) : IsAscii(payload[i]) /\ value.s[i] = Chr(payload[i])

\* the cache holds, for the endpoint, what the claim says of the payload
StoredAsClaimed(endpoint, payload) ==
    /\ endpoint \in DOMAIN condition
    /\ IF IsDecimalPayload(payload)
       THEN condition[endpoint] = IntVal(DecimalValue(payload))
       ELSE IsTextOf(condition[endpoint], payload)

\* on_message has been called with a message on the topic of the endpoint, and
\* no callback is running
Handled(endpoint) ==
    /\ last_handled[TopicOf(data_topic, endpoint)] # NoPayload
    /\ \A h \in Handlers : net_pc[h] = "idle"

(***************************************************************************)
(* C2.  Once on_message has handled a message, no exception has left it,   *)
(* and the cache holds under the last segment of the topic the integer     *)
(* value of the payload when the payload is a decimal integer, and the     *)
(* text of the payload otherwise.                                          *)
(***************************************************************************)
OnMessageStoresPayload ==
    \A e \in EndpointSet :
        Handled(e) =>
            /\ ~net_error
            /\ StoredAsClaimed(e, last_handled[TopicOf(data_topic, e)])

(***************************************************************************)
(* C2, for the payloads that are UTF-8 text: the same, the payloads that   *)
(* bytes.decode() rejects left aside.                                      *)
(***************************************************************************)
OnMessageStoresText ==
    \A e \in EndpointSet :
        (Handled(e) /\ Decodable(last_handled[TopicOf(data_topic, e)])) =>
            /\ ~net_error
            /\ StoredAsClaimed(e, last_handled[TopicOf(data_topic, e)])

(***************************************************************************)
(* Specification of concurrent callbacks: on_message runs in two contexts  *)
(* at once, on messages of distinct metrics.                               *)
(***************************************************************************)
\* on_message called in a context while no other context handles a message
\* of the same topic
on_message_begin_distinct(h) ==
    /\ inflight # <<>>
    /\ \A g \in Handlers \ {h} :
          net_pc[g] # "idle" => net_msg[g].topic # Head(inflight).topic
    /\ on_message_begin(h)

NextConc ==
    \/ LoginStep
    \/ \E e \in EndpointSet, p \in Payloads : broker_deliver(TopicOf(data_topic, e), p)
    \/ \E h \in Handlers : on_connect(h)
    \/ \E h \in Handlers : on_message_begin_distinct(h)
    \/ \E h \in Handlers : on_message_decode(h)
    \/ \E h \in Handlers : on_message_store(h)

SpecConc == Init /\ [][NextConc]_vars

\* a callback is handling a message on the topic of the endpoint
Handling(endpoint) ==
    \E h \in Handlers :
        net_pc[h] # "idle" /\ net_msg[h].topic = TopicOf(data_topic, endpoint)

(***************************************************************************)
(* C6.  With on_message running concurrently on messages of distinct       *)
(* metrics, every metric that no callback is handling holds the value of   *)
(* the last message handled on its topic, and None when none was handled:  *)
(* no write is lost and none lands under another key.                      *)
(***************************************************************************)
NoCrossKeyInterference ==
    \A e \in EndpointSet :
        LET payload == last_handled[TopicOf(data_topic, e)]
        IN ~Handling(e) =>
              /\ payload = NoPayload => condition[e] = None
              /\ (payload # NoPayload /\ Decodable(payload)) =>
                     StoredAsClaimed(e, payload)

\* the two contexts are in on_message at once, one about to store temp and the
\* other about to store hum
NoCrossKeyInterferenceWitness ==
    /\ net_pc["net1"] = "store"
    /\ net_key["net1"] = TEMP_ENDPOINT
    /\ net_pc["net2"] = "store"
    /\ net_key["net2"] = HUD_ENDPOINT
    /\ \A e \in EndpointSet : condition[e] = None

(***************************************************************************)
(* Specification of publish: publish called with any endpoint, message and *)
(* prefix, next to an async_login.                                         *)
(***************************************************************************)
NextPublish ==
    \/ LoginStep
    \/ \E t \in LoginTasks : subscribe_acquire(t)
    \/ \E e \in PubEndpoints, m \in PubMsgs, p \in PubPrefixes : publish_begin(e, m, p)
    \/ PublishStep

SpecPublish == InitAnyTopic /\ [][NextPublish]_vars

\* str.split(s, "/")
RECURSIVE Segments(_)
Segments(s) ==
    IF LastSlash(s) = 0 THEN <<s>>
    ELSE Append(Segments(SubSeq(s, 1, LastSlash(s) - 1)), LastSegment(s))

(***************************************************************************)
(* C9.  The call publish makes on the client has the topic                 *)
(* data[CONF_TOPIC] + "/" + endpoint, with prefix + "/" before it exactly  *)
(* when a prefix is given; its levels are those of the prefix, of the      *)
(* configured topic and of the endpoint, in this order; the message is     *)
(* passed as it is, with qos 0 and retain True.                            *)
(***************************************************************************)
PublishTopicComposed ==
    published.sent =>
        LET base == data_topic \o <<"/">> \o pub_args.endpoint
            given == pub_args.prefix # NoPrefix
        IN /\ pc["publish"] = "pub_ret"
           /\ published.topic = IF given THEN pub_args.prefix \o <<"/">> \o base ELSE base
           /\ Segments(published.topic) =
                 (IF given THEN Segments(pub_args.prefix) ELSE <<>>)
                 \o Segments(data_topic) \o Segments(pub_args.endpoint)
           /\ published.msg = pub_args.msg
           /\ published.qos = 0
           /\ published.retain = TRUE

\* a publish with a prefix and one with the empty prefix
PublishTopicComposedWitness ==
    /\ published.sent
    /\ pub_args.prefix = <<>>
    /\ pub_args.endpoint = <<"cmd", "/", "speed">>
    /\ published.msg = "off"
    /\ published.topic = <<"/", "home", "/", "vakio", "/", "cmd", "/", "speed">>

(***************************************************************************)
(* C11.  As claimed: the unsubscribe of on_message removes the             *)
(* subscription of the topic of the message and of no other topic, and     *)
(* between two runs of self._client.subscribe on_message stores at most    *)
(* one value per topic.                                                    *)
(***************************************************************************)
OneShotSubscription ==
    /\ [](\A tp \in DOMAIN stored_since_subscribe : stored_since_subscribe[tp] <= 1)
    /\ [][ \A h \in Handlers :
              (sock /\ on_message_decode(h)) =>
                  broker_subs' = broker_subs \ {net_msg[h].topic}
         ]_vars

(***************************************************************************)
(* C11, the part on the subscriptions alone: the unsubscribe of on_message *)
(* removes the subscription of the topic of the message and leaves the     *)
(* other subscriptions as they are.                                        *)
(***************************************************************************)
UnsubscribesExactlyTopic ==
    [][ \A h \in Handlers :
          (sock /\ on_message_decode(h)) =>
              broker_subs' = broker_subs \ {net_msg[h].topic}
      ]_vars

(***************************************************************************)
(* C12.  As claimed: at most one call on self._client is in progress at    *)
(* any time, the unsubscribe of on_message counted with the connect,       *)
(* loop_stop, subscribe and publish calls of the coroutines.               *)
(***************************************************************************)
ClientCallsSerialized == Cardinality(client_calls) <= 1

(***************************************************************************)
(* C12, the calls of on_message alone: no call of a coroutine on           *)
(* self._client is in progress while on_message is in its unsubscribe.     *)
(***************************************************************************)
UnsubscribeSerialized ==
    \A c \in client_calls, d \in client_calls :
        (c.op = "unsubscribe" /\ d # c) => d.op = "unsubscribe"

\* the value is what the claims say of the payload: its integer value when it
\* is a decimal integer, its text otherwise
HoldsPayload(value, payload) ==
    IF IsDecimalPayload(payload)
    THEN value = IntVal(DecimalValue(payload))
    ELSE IsTextOf(value, payload)

(***************************************************************************)
(* C13.  As claimed: a getter called while no callback handles a message   *)
(* of its topic returns the value of the payload on_message was last       *)
(* called with on that topic, returns None exactly when on_message was     *)
(* never called with a message of the topic, and a cached value that is    *)
(* not None never becomes None.                                            *)
(***************************************************************************)
GettersReturnLastHandled ==
    /\ [](\A name \in GetterNames :
            LET e == GetterKey(name)
                payload == last_handled[TopicOf(data_topic, e)]
            IN (returned.op = name /\ ~Handling(e)) =>
                  /\ returned.value = None <=> payload = NoPayload
                  /\ payload # NoPayload => HoldsPayload(returned.value, payload))
    /\ [][ \A e \in EndpointSet : condition[e] # None => condition'[e] # None ]_vars

(***************************************************************************)
(* C13, for the payloads that are UTF-8 text: a getter returns None when   *)
(* on_message was never called with a message of its topic, the value of   *)
(* the last payload when that payload is UTF-8 text, and a cached value    *)
(* that is not None never becomes None.                                    *)
(***************************************************************************)
GettersReturnLastText ==
    /\ [](\A name \in GetterNames :
            LET e == GetterKey(name)
                payload == last_handled[TopicOf(data_topic, e)]
            IN (returned.op = name /\ ~Handling(e)) =>
                  /\ payload = NoPayload => returned.value = None
                  /\ (payload # NoPayload /\ Decodable(payload)) =>
                         HoldsPayload(returned.value, payload))
    /\ [][ \A e \in EndpointSet : condition[e] # None => condition'[e] # None ]_vars

(***************************************************************************)
(* C14.  The cache changes only in the step of on_message that stores the  *)
(* value: no step of async_login, _async_update, connect, disconnect,      *)
(* subscribe, publish, on_connect or of a getter changes a cached value.   *)
(***************************************************************************)
CacheWrittenByOnMessageOnly ==
    [][ condition' # condition => \E h \in Handlers : on_message_store(h) ]_vars

\* _async_update has returned with a value in the cache
CacheWrittenByOnMessageOnlyWitness ==
    /\ returned = Return("_async_update", None)
    /\ condition[HUD_ENDPOINT].kind = "int"
    /\ subscribes_count = 2

\* the positions an async_login goes through, each with the ones that follow it
LoginOrder ==
    [idle |-> {"connect_run"},
     connect_run |-> {"connect_ret"},
     connect_ret |-> {"sub_lock", "sub_run"},
     sub_lock |-> {"sub_run"},
     sub_run |-> {"sub_ret"},
     sub_ret |-> {"idle"}]

(***************************************************************************)
(* C15.  With the async_login calls made one after another, an async_login *)
(* on a Coordinator that is not logged in goes through connect and then    *)
(* through subscribe, whatever the outcome of connect: while it is in      *)
(* connect, connect has been invoked once and subscribe not yet; while it  *)
(* is in subscribe, each has been invoked once; the calls on the client    *)
(* are made in these positions; is_logged_in is not set before subscribe   *)
(* has returned, and is set in the step in which async_login returns.      *)
(***************************************************************************)
LoginConnectsThenSubscribes ==
    /\ [](\A t \in LoginTasks :
            /\ pc[t] \in {"connect_run", "connect_ret"} =>
                  /\ connect_calls = 1
                  /\ login_subscribes = 0
                  /\ ~is_logged_in
            /\ pc[t] \in {"sub_lock", "sub_run", "sub_ret"} =>
                  /\ connect_calls = 1
                  /\ login_subscribes = 1
                  /\ subscribes_count >= 1
                  /\ ~is_logged_in
            /\ pc[t] = "connect_run" <=> Call(t, "connect") \in client_calls
            /\ pc[t] = "sub_run" <=> Call(t, "subscribe") \in client_calls)
    /\ [](is_logged_in => connect_calls = 1 /\ login_subscribes = 1)
    /\ [][ /\ \A t \in LoginTasks : pc'[t] # pc[t] => pc'[t] \in LoginOrder[pc[t]]
           /\ is_logged_in' # is_logged_in =>
                 \E t \in LoginTasks :
                     pc[t] = "sub_ret" /\ pc'[t] = "idle" /\ is_logged_in'
         ]_vars

\* an async_login whose connect failed has returned False, after one connect
\* and one subscribe
LoginConnectsThenSubscribesWitness ==
    /\ returned = Return("async_login", BoolVal(FALSE))
    /\ is_logged_in
    /\ connect_calls = 1
    /\ login_subscribes = 1
    /\ subscribes_count = 1
    /\ ~sock

(***************************************************************************)
(* C16.  disconnect takes its steps in one order and holds the lock from   *)
(* the first to the last: it takes the lock when the lock is free and sets *)
(* is_connected to False in the same step, the connection and the network  *)
(* loop untouched; then loop_stop runs and leaves the network loop         *)
(* stopped, the connection untouched; then self._client.disconnect()       *)
(* closes the connection and the lock is released in the step in which     *)
(* disconnect returns.                                                     *)
(***************************************************************************)
DisconnectOrder ==
    /\ [](pc["disconnect"] \in {"stop_run", "stop_ret"} => paho_lock = "disconnect")
    /\ [](pc["disconnect"] = "stop_run" <=>
              Call("disconnect", "loop_stop") \in client_calls)
    /\ [][ LET p == pc["disconnect"]
               q == pc'["disconnect"]
           IN p # q =>
                \/ /\ p = "idle" /\ q = "disc_lock"
                   /\ paho_lock # "free"
                   /\ UNCHANGED <<paho_lock, is_connected, sock, loop_running>>
                \/ /\ p \in {"idle", "disc_lock"} /\ q = "stop_run"
                   /\ paho_lock = "free" /\ paho_lock' = "disconnect"
                   /\ ~is_connected'
                   /\ UNCHANGED <<sock, loop_running>>
                \/ /\ p = "stop_run" /\ q = "stop_ret"
                   /\ ~loop_running'
                   /\ UNCHANGED <<paho_lock, is_connected, sock>>
                \/ /\ p = "stop_ret" /\ q = "idle"
                   /\ ~sock'
                   /\ paho_lock' = "free"
                   /\ returned' = Return("disconnect", None)
                   /\ UNCHANGED <<is_connected, loop_running>>
         ]_vars

\* disconnect of a client whose connection was acknowledged: the lock is held,
\* is_connected is False, the network loop is stopped, the connection is open
DisconnectOrderWitness ==
    /\ pc["disconnect"] = "stop_ret"
    /\ paho_lock = "disconnect"
    /\ ~is_connected
    /\ ~loop_running
    /\ sock
    /\ ~connack
    /\ connect_calls = 1

(***************************************************************************)
(* C17.  As claimed: when disconnect returns is_connected is False, also   *)
(* when on_connect ran while disconnect was in progress; and is_connected  *)
(* becomes True only in a step of on_connect.                              *)
(***************************************************************************)
DisconnectedAfterDisconnect ==
    /\ [](returned = Return("disconnect", None) => ~is_connected)
    /\ [][ (~is_connected /\ is_connected') => \E h \in Handlers : on_connect(h) ]_vars

(***************************************************************************)
(* C18.  As claimed: with async_login calls that overlap, connect is       *)
(* invoked at most once and subscribe is invoked by async_login at most    *)
(* once.                                                                   *)
(***************************************************************************)
OverlappingLoginsConnectOnce ==
    /\ connect_calls <= 1
    /\ login_subscribes <= 1

(***************************************************************************)
(* The sensors: VakioSensor._async_update, and the specification of the    *)
(* sensors' updates next to async_login, _async_update and the messages.   *)
(***************************************************************************)
\* the cache key behind the getter a sensor calls, chosen by its device class:
\* get_temp for TEMPERATURE, get_hud for HUMIDITY, get_co2 otherwise
SensorKey(sensor) ==
    CASE sensor = "temp" -> TEMP_ENDPOINT
      [] sensor = "hud" -> HUD_ENDPOINT
      [] OTHER -> CO2_ENDPOINT

SensorOp(sensor) ==
    CASE sensor = "temp" -> "temp._async_update"
      [] sensor = "hud" -> "hud._async_update"
      [] OTHER -> "co2._async_update"

\* a sensor that takes the value of the getter as it is
NativeValueOf_any(val) == val

\* val if type(val) in [int, type(None)] else None
NativeValueOf(val) == IF val.kind \in {"int", "none"} THEN val ELSE None

\* VakioSensor._async_update: the timers of the sensors are registered once
\* async_login has returned
sensor_async_update(sensor) ==
    /\ is_logged_in
    /\ native_value' =
          [native_value EXCEPT ![sensor] = NativeValueOf(condition[SensorKey(sensor)])]
    /\ returned' = Return(SensorOp(sensor), None)
    /\ published' = NoPublish
    /\ UNCHANGED <<stored_since_subscribe, coordinator_vars, mqtt_vars,
                   client_vars, task_vars, net_vars, hist_vars>>

NextSensor ==
    \/ LoginStep
    \/ get_condition_begin
    \/ subscribe_job("refresh")
    \/ get_condition_return
    \/ NetStep(NetThread)
    \/ \E sensor \in Sensors : sensor_async_update(sensor)

SpecSensor == Init /\ [][NextSensor]_vars

(***************************************************************************)
(* C19.  The native value of every sensor is an int or None; and the       *)
(* update of a sensor leaves the cache as it is and sets the native value  *)
(* to the cached value of the sensor's metric when that value is an int or *)
(* None, and to None when it is a text.                                    *)
(***************************************************************************)
SensorNativeValueIntOrNone ==
    /\ [](\A sensor \in Sensors : native_value[sensor].kind \in {"int", "none"})
    /\ [][ \A sensor \in Sensors :
              sensor_async_update(sensor) =>
                  LET cached == condition[SensorKey(sensor)]
                  IN /\ UNCHANGED condition
                     /\ cached.kind = "int" => native_value'[sensor] = cached
                     /\ cached = None => native_value'[sensor] = None
                     /\ cached.kind = "str" => native_value'[sensor] = None
                     /\ \A other \in Sensors \ {sensor} :
                           native_value'[other] = native_value[other]
         ]_vars

\* the co2 sensor has been updated from a cached text and shows None, the temp
\* sensor shows the int it was updated from
SensorNativeValueIntOrNoneWitness ==
    /\ returned = Return(SensorOp("co2"), None)
    /\ condition[CO2_ENDPOINT].kind = "str"
    /\ native_value["co2"] = None
    /\ native_value["temp"] = IntVal(21)

=============================================================================
